---- MODULE Spec2Model ----
(***************************************************************************)
(* Model of the transactor: the per-client Account state machine           *)
(* (src/src/account.rs) and the Manager that routes transactions to the    *)
(* accounts (src/src/manager.rs).                                          *)
(*                                                                         *)
(* Amounts are u64 in the program.  The model keeps the fixed width of the *)
(* integers but scales it down to Width bits, so that the largest amount   *)
(* (U64Max) and the additions that exceed it are within TLC's reach.       *)
(* Whether an addition or subtraction that leaves the range panics or      *)
(* wraps depends on the build profile (overflow-checks on or off); the     *)
(* model chooses the profile in Init and keeps it.                         *)
(***************************************************************************)
EXTENDS Integers, FiniteSets, Sequences, TLC

\* ------------------------------------------------------------------ bounds
MaxClient == 2
MaxTx == 2
Width == 2

Clients == 1..MaxClient
Txs == 1..MaxTx

Modulus == 2 ^ Width
U64Max == Modulus - 1

\* Amounts the operations are called with: zero, two ordinary amounts (1 and
\* 2 stand for the 50 and 100 of the documented scenarios, whose outcome only
\* depends on sums and comparisons), and the largest representable amount.
Amounts == {0, 1, 2, U64Max}

VARIABLES
    accounts,         \* Manager.accounts : client -> Account (a partial map)
    overflow_checks,  \* build profile: TRUE = arithmetic overflow panics
    crashed,          \* TRUE once an operation has panicked (process aborted)
    deposit_called,   \* history: the clients Manager::deposit was called for
    run,              \* where execute() is: "opening", "loading", "done", "failed"
    loaded,           \* TRUE once load_data has returned Ok(())
    fatal,            \* the error execute() returned to main ("none" if none)
    snapshot,         \* what unload_data has written: "none", "partial", "complete"
    applied           \* history: the ledger built from the accepted records alone

vars == <<accounts, overflow_checks, crashed, deposit_called,
          run, loaded, fatal, snapshot, applied>>

\* the variables of the run around the ledger
run_vars == <<run, loaded, fatal, snapshot, applied>>

\* ------------------------------------------------------- TransactorError
Ok == [kind |-> "Ok"]
Panic == [kind |-> "Panic"]
MissingAmount == [kind |-> "MissingAmount"]
FrozenAccount == [kind |-> "FrozenAccount"]
NoClient(id) == [kind |-> "NoClient", id |-> id]
NoTransaction(id) == [kind |-> "NoTransaction", id |-> id]
DuplicateTxn(id) == [kind |-> "DuplicateTxn", id |-> id]
NonDisputedTxn(id) == [kind |-> "NonDisputedTxn", id |-> id]
AlreadyDisputedTxn(id) == [kind |-> "AlreadyDisputedTxn", id |-> id]
withdrawal_exceeds(available, attempted) ==
    [kind |-> "WithdrawalExceedsAvailable", available |-> available, attempted |-> attempted]
dispute_exceeds(available, attempted) ==
    [kind |-> "DisputeExceedsAvailable", available |-> available, attempted |-> attempted]

\* ------------------------------------------------------- u64 arithmetic
\* a + b on u64: the sum leaves the range
AddOverflows(a, b) == a + b > U64Max
\* a - b on u64: the difference leaves the range
SubOverflows(a, b) == a < b
\* what the wrapping (unchecked) build stores
WrappingAdd(a, b) == (a + b) % Modulus
WrappingSub(a, b) == (a - b + Modulus) % Modulus

\* --------------------------------------------------------------- Deposit
DepositNew(amount) == [amount |-> amount, disputed |-> FALSE]

\* HashMap::insert / Entry::insert on the deposits map
Insert(map, key, value) ==
    [k \in DOMAIN map \cup {key} |-> IF k = key THEN value ELSE map[k]]

\* --------------------------------------------------------------- Account
AccountNew(tx, available) ==
    [available |-> available,
     held |-> 0,
     frozen |-> FALSE,
     deposits |-> Insert(<<>>, tx, DepositNew(available))]

\* Account::total: available + held, as the build computes it
total(acct) ==
    IF AddOverflows(acct.available, acct.held) /\ overflow_checks
    THEN [res |-> Panic, val |-> 0]
    ELSE [res |-> Ok, val |-> WrappingAdd(acct.available, acct.held)]

\* Every Account operation yields the account after the call and the result.
Ret(acct, res) == [acct |-> acct, res |-> res]

\* mutant: the duplicate check placed before the frozen check
AccountDeposit_DuplicateFirst(acct, tx, amt) ==
    IF tx \in DOMAIN acct.deposits THEN Ret(acct, DuplicateTxn(tx))
    ELSE IF acct.frozen THEN Ret(acct, FrozenAccount)
    ELSE LET inserted == [acct EXCEPT !.deposits = Insert(@, tx, DepositNew(amt))]
         IN  IF AddOverflows(inserted.available, amt) /\ overflow_checks
             THEN Ret(inserted, Panic)
             ELSE Ret([inserted EXCEPT !.available = WrappingAdd(@, amt)], Ok)

\* mutant: HashMap::insert in place of the vacant-entry test
AccountDeposit_Overwrite(acct, tx, amt) ==
    IF acct.frozen THEN Ret(acct, FrozenAccount)
    ELSE LET inserted == [acct EXCEPT !.deposits = Insert(@, tx, DepositNew(amt))]
         IN  IF AddOverflows(inserted.available, amt) /\ overflow_checks
             THEN Ret(inserted, Panic)
             ELSE Ret([inserted EXCEPT !.available = WrappingAdd(@, amt)],
                      IF tx \in DOMAIN acct.deposits THEN DuplicateTxn(tx) ELSE Ok)

AccountDeposit(acct, tx, amt) ==
    IF acct.frozen THEN Ret(acct, FrozenAccount)
    ELSE IF tx \notin DOMAIN acct.deposits
    THEN LET inserted == [acct EXCEPT !.deposits = Insert(@, tx, DepositNew(amt))]
         IN  IF AddOverflows(inserted.available, amt) /\ overflow_checks
             THEN Ret(inserted, Panic)
             ELSE Ret([inserted EXCEPT !.available = WrappingAdd(@, amt)], Ok)
    ELSE Ret(acct, DuplicateTxn(tx))

\* mutant: the amount compared with total() instead of available
AccountWithdraw_AgainstTotal(acct, amt) ==
    IF acct.frozen THEN Ret(acct, FrozenAccount)
    ELSE IF total(acct).val < amt
    THEN Ret(acct, withdrawal_exceeds(acct.available, amt))
    ELSE Ret([acct EXCEPT !.available = WrappingSub(@, amt)], Ok)

AccountWithdraw(acct, amt) ==
    IF acct.frozen THEN Ret(acct, FrozenAccount)
    ELSE IF acct.available < amt
    THEN Ret(acct, withdrawal_exceeds(acct.available, amt))
    ELSE Ret([acct EXCEPT !.available = WrappingSub(@, amt)], Ok)

\* mutant: the funds check placed before the already-disputed check
AccountDispute_ExceedsFirst(acct, tx) ==
    IF acct.frozen THEN Ret(acct, FrozenAccount)
    ELSE IF tx \notin DOMAIN acct.deposits THEN Ret(acct, NoTransaction(tx))
    ELSE LET amt == acct.deposits[tx].amount
         IN  IF acct.available < amt
             THEN Ret(acct, dispute_exceeds(acct.available, amt))
             ELSE IF acct.deposits[tx].disputed THEN Ret(acct, AlreadyDisputedTxn(tx))
             ELSE LET moved == [acct EXCEPT !.deposits[tx].disputed = TRUE,
                                            !.available = WrappingSub(@, amt)]
                  IN  IF AddOverflows(moved.held, amt) /\ overflow_checks
                      THEN Ret(moved, Panic)
                      ELSE Ret([moved EXCEPT !.held = WrappingAdd(@, amt)], Ok)

\* mutant: the deposit is marked disputed before the funds check
AccountDispute_FlagBeforeCheck(acct, tx) ==
    IF acct.frozen THEN Ret(acct, FrozenAccount)
    ELSE IF tx \notin DOMAIN acct.deposits THEN Ret(acct, NoTransaction(tx))
    ELSE LET amt == acct.deposits[tx].amount
             marked == [acct EXCEPT !.deposits[tx].disputed = TRUE]
         IN  IF acct.deposits[tx].disputed THEN Ret(acct, AlreadyDisputedTxn(tx))
             ELSE IF acct.available < amt
             THEN Ret(marked, dispute_exceeds(acct.available, amt))
             ELSE LET moved == [marked EXCEPT !.available = WrappingSub(@, amt)]
                  IN  IF AddOverflows(moved.held, amt) /\ overflow_checks
                      THEN Ret(moved, Panic)
                      ELSE Ret([moved EXCEPT !.held = WrappingAdd(@, amt)], Ok)

AccountDispute(acct, tx) ==
    IF acct.frozen THEN Ret(acct, FrozenAccount)
    ELSE IF tx \notin DOMAIN acct.deposits THEN Ret(acct, NoTransaction(tx))
    ELSE LET amt == acct.deposits[tx].amount
         IN  IF acct.deposits[tx].disputed THEN Ret(acct, AlreadyDisputedTxn(tx))
             ELSE IF acct.available < amt
             THEN Ret(acct, dispute_exceeds(acct.available, amt))
             ELSE LET moved == [acct EXCEPT !.deposits[tx].disputed = TRUE,
                                            !.available = WrappingSub(@, amt)]
                  IN  IF AddOverflows(moved.held, amt) /\ overflow_checks
                      THEN Ret(moved, Panic)
                      ELSE Ret([moved EXCEPT !.held = WrappingAdd(@, amt)], Ok)

\* mutant: the funds are released but deposit.resolve() is left out
AccountResolve_KeepsFlag(acct, tx) ==
    IF acct.frozen THEN Ret(acct, FrozenAccount)
    ELSE IF tx \notin DOMAIN acct.deposits THEN Ret(acct, NoTransaction(tx))
    ELSE IF ~acct.deposits[tx].disputed THEN Ret(acct, NonDisputedTxn(tx))
    ELSE LET amt == acct.deposits[tx].amount
         IN  IF SubOverflows(acct.held, amt) /\ overflow_checks
             THEN Ret(acct, Panic)
             ELSE LET released == [acct EXCEPT !.held = WrappingSub(@, amt)]
                  IN  IF AddOverflows(released.available, amt) /\ overflow_checks
                      THEN Ret(released, Panic)
                      ELSE Ret([released EXCEPT !.available = WrappingAdd(@, amt)], Ok)

\* mutant: resolve does not test frozen
AccountResolve_IgnoresFrozen(acct, tx) ==
    IF tx \notin DOMAIN acct.deposits THEN Ret(acct, NoTransaction(tx))
    ELSE IF ~acct.deposits[tx].disputed THEN Ret(acct, NonDisputedTxn(tx))
    ELSE LET amt == acct.deposits[tx].amount
             cleared == [acct EXCEPT !.deposits[tx].disputed = FALSE]
         IN  IF SubOverflows(cleared.held, amt) /\ overflow_checks
             THEN Ret(cleared, Panic)
             ELSE LET released == [cleared EXCEPT !.held = WrappingSub(@, amt)]
                  IN  IF AddOverflows(released.available, amt) /\ overflow_checks
                      THEN Ret(released, Panic)
                      ELSE Ret([released EXCEPT !.available = WrappingAdd(@, amt)], Ok)

AccountResolve(acct, tx) ==
    IF acct.frozen THEN Ret(acct, FrozenAccount)
    ELSE IF tx \notin DOMAIN acct.deposits THEN Ret(acct, NoTransaction(tx))
    ELSE IF ~acct.deposits[tx].disputed THEN Ret(acct, NonDisputedTxn(tx))
    ELSE LET amt == acct.deposits[tx].amount
             cleared == [acct EXCEPT !.deposits[tx].disputed = FALSE]
         IN  IF SubOverflows(cleared.held, amt) /\ overflow_checks
             THEN Ret(cleared, Panic)
             ELSE LET released == [cleared EXCEPT !.held = WrappingSub(@, amt)]
                  IN  IF AddOverflows(released.available, amt) /\ overflow_checks
                      THEN Ret(released, Panic)
                      ELSE Ret([released EXCEPT !.available = WrappingAdd(@, amt)], Ok)

\* mutant: the is_disputed test is left out
AccountChargeback_NoDisputeCheck(acct, tx) ==
    IF acct.frozen THEN Ret(acct, FrozenAccount)
    ELSE IF tx \notin DOMAIN acct.deposits THEN Ret(acct, NoTransaction(tx))
    ELSE LET amt == acct.deposits[tx].amount
             cleared == [acct EXCEPT !.deposits[tx].disputed = FALSE]
         IN  IF SubOverflows(cleared.held, amt) /\ overflow_checks
             THEN Ret(cleared, Panic)
             ELSE Ret([cleared EXCEPT !.held = WrappingSub(@, amt), !.frozen = TRUE], Ok)

\* mutant: the charged-back deposit is removed from the map
AccountChargeback_DropsDeposit(acct, tx) ==
    IF acct.frozen THEN Ret(acct, FrozenAccount)
    ELSE IF tx \notin DOMAIN acct.deposits THEN Ret(acct, NoTransaction(tx))
    ELSE IF ~acct.deposits[tx].disputed THEN Ret(acct, NonDisputedTxn(tx))
    ELSE LET amt == acct.deposits[tx].amount
             removed == [acct EXCEPT !.deposits =
                            [k \in DOMAIN @ \ {tx} |-> @[k]]]
         IN  IF SubOverflows(removed.held, amt) /\ overflow_checks
             THEN Ret(removed, Panic)
             ELSE Ret([removed EXCEPT !.held = WrappingSub(@, amt), !.frozen = TRUE], Ok)

AccountChargeback(acct, tx) ==
    IF acct.frozen THEN Ret(acct, FrozenAccount)
    ELSE IF tx \notin DOMAIN acct.deposits THEN Ret(acct, NoTransaction(tx))
    ELSE IF ~acct.deposits[tx].disputed THEN Ret(acct, NonDisputedTxn(tx))
    ELSE LET amt == acct.deposits[tx].amount
             cleared == [acct EXCEPT !.deposits[tx].disputed = FALSE]
         IN  IF SubOverflows(cleared.held, amt) /\ overflow_checks
             THEN Ret(cleared, Panic)
             ELSE Ret([cleared EXCEPT !.held = WrappingSub(@, amt), !.frozen = TRUE], Ok)

\* --------------------------------------------------------------- Manager
\* Every Manager operation yields the accounts map after the call and the result.
MRet(accts, res) == [accounts |-> accts, res |-> res]

\* write back the account a delegated call worked on (get_mut)
Delegate(accts, client, r) ==
    MRet([accts EXCEPT ![client] = r.acct], r.res)

\* mutant: the account is inserted anew on every deposit
ManagerDeposit_Reseed(accts, client, tx, amt) ==
    MRet(Insert(accts, client, AccountNew(tx, amt)), Ok)

\* mutant: transaction ids are looked up across all accounts
ManagerDeposit_GlobalTx(accts, client, tx, amt) ==
    IF \E o \in DOMAIN accts : tx \in DOMAIN accts[o].deposits
    THEN MRet(accts, DuplicateTxn(tx))
    ELSE IF client \in DOMAIN accts
         THEN Delegate(accts, client, AccountDeposit(accts[client], tx, amt))
         ELSE MRet(Insert(accts, client, AccountNew(tx, amt)), Ok)

ManagerDeposit(accts, client, tx, amt) ==
    IF client \in DOMAIN accts
    THEN Delegate(accts, client, AccountDeposit(accts[client], tx, amt))
    ELSE MRet(Insert(accts, client, AccountNew(tx, amt)), Ok)

\* mutant: a missing client gets an empty account (entry().or_insert)
ManagerWithdraw_CreatesAccount(accts, client, amt) ==
    LET known == IF client \in DOMAIN accts THEN accts
                 ELSE Insert(accts, client,
                             [available |-> 0, held |-> 0, frozen |-> FALSE, deposits |-> <<>>])
    IN  Delegate(known, client, AccountWithdraw(known[client], amt))

ManagerWithdraw(accts, client, amt) ==
    IF client \notin DOMAIN accts THEN MRet(accts, NoClient(client))
    ELSE Delegate(accts, client, AccountWithdraw(accts[client], amt))

\* mutant: a tx the client does not have is looked up in the other accounts
ManagerDispute_GlobalLookup(accts, client, tx) ==
    IF client \notin DOMAIN accts THEN MRet(accts, NoClient(client))
    ELSE IF tx \notin DOMAIN accts[client].deposits
            /\ \E o \in DOMAIN accts : tx \in DOMAIN accts[o].deposits
    THEN LET o == CHOOSE o \in DOMAIN accts : tx \in DOMAIN accts[o].deposits
         IN  Delegate(accts, o, AccountDispute(accts[o], tx))
    ELSE Delegate(accts, client, AccountDispute(accts[client], tx))

ManagerDispute(accts, client, tx) ==
    IF client \notin DOMAIN accts THEN MRet(accts, NoClient(client))
    ELSE Delegate(accts, client, AccountDispute(accts[client], tx))

ManagerResolve(accts, client, tx) ==
    IF client \notin DOMAIN accts THEN MRet(accts, NoClient(client))
    ELSE Delegate(accts, client, AccountResolve(accts[client], tx))

\* mutant: a successful chargeback locks every account of the ledger
ManagerChargeback_FreezesAll(accts, client, tx) ==
    IF client \notin DOMAIN accts THEN MRet(accts, NoClient(client))
    ELSE LET r == Delegate(accts, client, AccountChargeback(accts[client], tx))
         IN  IF r.res = Ok
             THEN MRet([o \in DOMAIN r.accounts |-> [r.accounts[o] EXCEPT !.frozen = TRUE]], Ok)
             ELSE r

ManagerChargeback(accts, client, tx) ==
    IF client \notin DOMAIN accts THEN MRet(accts, NoClient(client))
    ELSE Delegate(accts, client, AccountChargeback(accts[client], tx))

\* ------------------------------------------------------ record processing
\* Option<u64>
None == <<>>
Some(v) == <<v>>

Operations == {"withdrawal", "deposit", "dispute", "resolve", "chargeback"}

\* TransactionRecord, as the reader hands it to process(): a deposit or a
\* withdrawal with or without its amount, the other operations without
Records ==
    [operation : {"withdrawal", "deposit"}, client : Clients, tx : Txs,
     amount : {None} \cup {Some(a) : a \in Amounts}]
    \cup
    [operation : {"dispute", "resolve", "chargeback"}, client : Clients, tx : Txs,
     amount : {None}]

\* the match of TransactionRecord::process on a record that has its amount
ManagerCall(accts, rec) ==
    CASE rec.operation = "withdrawal" -> ManagerWithdraw(accts, rec.client, rec.amount[1])
      [] rec.operation = "deposit" -> ManagerDeposit(accts, rec.client, rec.tx, rec.amount[1])
      [] rec.operation = "dispute" -> ManagerDispute(accts, rec.client, rec.tx)
      [] rec.operation = "resolve" -> ManagerResolve(accts, rec.client, rec.tx)
      [] rec.operation = "chargeback" -> ManagerChargeback(accts, rec.client, rec.tx)

\* a deposit or withdrawal without amount: amount.ok_or(MissingAmount)?
LacksAmount(rec) ==
    rec.operation \in {"withdrawal", "deposit"} /\ rec.amount = None

\* mutant: the result of the Manager call is returned (no `let _ =`)
Process_PropagatesErrors(accts, rec) ==
    IF LacksAmount(rec)
    THEN [accounts |-> accts, res |-> MissingAmount, ret |-> MissingAmount]
    ELSE LET r == ManagerCall(accts, rec)
         IN  [accounts |-> r.accounts, res |-> r.res, ret |-> r.res]

\* mutant: a record without its amount is dropped like a rejected one
Process_SkipsMissingAmount(accts, rec) ==
    IF LacksAmount(rec)
    THEN [accounts |-> accts, res |-> MissingAmount, ret |-> Ok]
    ELSE LET r == ManagerCall(accts, rec)
         IN  [accounts |-> r.accounts, res |-> r.res,
              ret |-> IF r.res = Panic THEN Panic ELSE Ok]

\* TransactionRecord::process: the ledger after it, the result of the
\* Manager call (res) and what process itself returns (ret)
Process(accts, rec) ==
    IF LacksAmount(rec)
    THEN [accounts |-> accts, res |-> MissingAmount, ret |-> MissingAmount]
    ELSE LET r == ManagerCall(accts, rec)
         IN  [accounts |-> r.accounts, res |-> r.res,
              ret |-> IF r.res = Panic THEN Panic ELSE Ok]

\* load_data's `record.process(manager)?`: where the run is after a record
\* an Err goes up to main, a panic ends the process where it is
LoadOutcome(p) == IF p.ret \in {Ok, Panic} THEN "loading" ELSE "failed"

\* main: the exit code of a run that has ended
ExitCode == IF run = "done" THEN "SUCCESS" ELSE "FAILURE"

\* ------------------------------------------------------------ behaviour
Init ==
    /\ accounts = <<>>
    /\ overflow_checks \in BOOLEAN
    /\ crashed = FALSE
    /\ deposit_called = {}
    /\ run = "opening"
    /\ loaded = FALSE
    /\ fatal = "none"
    /\ snapshot = "none"
    /\ applied = <<>>

\* the state after a Manager call that returned r; a panic aborts the process
Apply(r) ==
    /\ accounts' = r.accounts
    /\ crashed' = (r.res = Panic)
    /\ UNCHANGED overflow_checks
    /\ UNCHANGED run_vars

Deposit(client, tx, amt) ==
    /\ ~crashed
    /\ Apply(ManagerDeposit(accounts, client, tx, amt))
    /\ deposit_called' = deposit_called \cup {client}

Withdraw(client, amt) ==
    /\ ~crashed
    /\ Apply(ManagerWithdraw(accounts, client, amt))
    /\ UNCHANGED deposit_called

Dispute(client, tx) ==
    /\ ~crashed
    /\ Apply(ManagerDispute(accounts, client, tx))
    /\ UNCHANGED deposit_called

Resolve(client, tx) ==
    /\ ~crashed
    /\ Apply(ManagerResolve(accounts, client, tx))
    /\ UNCHANGED deposit_called

Chargeback(client, tx) ==
    /\ ~crashed
    /\ Apply(ManagerChargeback(accounts, client, tx))
    /\ UNCHANGED deposit_called

Next ==
    \/ \E c \in Clients, tx \in Txs, amt \in Amounts : Deposit(c, tx, amt)
    \/ \E c \in Clients, amt \in Amounts : Withdraw(c, amt)
    \/ \E c \in Clients, tx \in Txs : Dispute(c, tx)
    \/ \E c \in Clients, tx \in Txs : Resolve(c, tx)
    \/ \E c \in Clients, tx \in Txs : Chargeback(c, tx)

Spec == Init /\ [][Next]_vars

\* ------------------------------------------------------------ the run
\* File::open succeeds
Open ==
    /\ run = "opening"
    /\ run' = "loading"
    /\ UNCHANGED <<accounts, overflow_checks, crashed, deposit_called,
                   loaded, fatal, snapshot, applied>>

\* File::open fails: IoError goes up to main
OpenFails ==
    /\ run = "opening"
    /\ run' = "failed"
    /\ fatal' = "IoError"
    /\ UNCHANGED <<accounts, overflow_checks, crashed, deposit_called,
                   loaded, snapshot, applied>>

\* the reader yields the next record and load_data processes it
Load(rec) ==
    /\ run = "loading"
    /\ ~crashed
    /\ \E p \in {Process(accounts, rec)} :
           /\ accounts' = p.accounts
           /\ crashed' = (p.ret = Panic)
           /\ run' = LoadOutcome(p)
           /\ fatal' = IF LoadOutcome(p) = "failed" THEN p.ret.kind ELSE fatal
           /\ applied' = IF p.res = Ok THEN ManagerCall(applied, rec).accounts ELSE applied
           /\ deposit_called' =
                  IF rec.operation = "deposit" /\ ~LacksAmount(rec)
                  THEN deposit_called \cup {rec.client}
                  ELSE deposit_called
    /\ UNCHANGED <<overflow_checks, loaded, snapshot>>

\* the reader yields an error (malformed record, negative amount, read
\* failure): csv::Error goes up to main as ParseError
LoadFails ==
    /\ run = "loading"
    /\ ~crashed
    /\ run' = "failed"
    /\ fatal' = "ParseError"
    /\ UNCHANGED <<accounts, overflow_checks, crashed, deposit_called,
                   loaded, snapshot, applied>>

\* the accounts whose total() the build cannot compute
TotalPanics == {c \in DOMAIN accounts : total(accounts[c]).res = Panic}

\* mutant: the snapshot is written whatever load_data returned
UnloadOk_AfterFailure ==
    /\ run \in {"loading", "failed"}
    /\ ~crashed
    /\ TotalPanics = {}
    /\ run' = "done"
    /\ loaded' = TRUE
    /\ snapshot' = "complete"
    /\ UNCHANGED <<accounts, overflow_checks, crashed, deposit_called, fatal, applied>>

\* end of the stream: load_data returns Ok, unload_data writes every account
UnloadOk ==
    /\ run = "loading"
    /\ ~crashed
    /\ TotalPanics = {}
    /\ run' = "done"
    /\ loaded' = TRUE
    /\ snapshot' = "complete"
    /\ UNCHANGED <<accounts, overflow_checks, crashed, deposit_called, fatal, applied>>

\* end of the stream, and a write of unload_data fails: csv::Error goes up
\* to main; the accounts written before it stay written
UnloadFails ==
    /\ run = "loading"
    /\ ~crashed
    /\ DOMAIN accounts /= {}
    /\ run' = "failed"
    /\ loaded' = TRUE
    /\ fatal' = "ParseError"
    /\ snapshot' \in {"none", "partial"}
    /\ UNCHANGED <<accounts, overflow_checks, crashed, deposit_called, applied>>

\* end of the stream, and total() of an account overflows while its record
\* is built: the accounts iterated before it (in the map's order) are written
UnloadPanics ==
    /\ run = "loading"
    /\ ~crashed
    /\ TotalPanics /= {}
    /\ crashed' = TRUE
    /\ loaded' = TRUE
    /\ snapshot' \in {"none"} \cup
           (IF DOMAIN accounts \ TotalPanics /= {} THEN {"partial"} ELSE {})
    /\ UNCHANGED <<accounts, overflow_checks, deposit_called, run, fatal, applied>>

RunNext ==
    \/ Open
    \/ OpenFails
    \/ \E rec \in Records : Load(rec)
    \/ LoadFails
    \/ UnloadOk
    \/ UnloadFails
    \/ UnloadPanics

RunSpec == Init /\ [][RunNext]_vars

\* ------------------------------------------------------------ properties
\* available + held over the integers, without the width of u64
SumOfBalances(acct) == acct.available + acct.held

\* the accounts a next operation can be applied to
Live == ~crashed

\* C1: in every reachable state every account has available >= 0, held >= 0
\* and total == available + held, and no subtraction of withdraw, dispute,
\* resolve or chargeback has an operand larger than the balance it is
\* subtracted from.
C1_BalancesConsistent ==
    Live => \A c \in DOMAIN accounts :
        LET a == accounts[c]
        IN  /\ a.available >= 0
            /\ a.held >= 0
            /\ total(a) = [res |-> Ok, val |-> SumOfBalances(a)]
            /\ \A amt \in Amounts :
                   AccountWithdraw(a, amt).res = Ok => amt <= a.available
            /\ \A tx \in DOMAIN a.deposits :
                   /\ AccountDispute(a, tx).res = Ok
                          => a.deposits[tx].amount <= a.available
                   /\ (~a.frozen /\ a.deposits[tx].disputed)
                          => a.deposits[tx].amount <= a.held

\* C2: a successful deposit of amt raises total by exactly amt, a successful
\* withdraw of amt lowers it by exactly amt, a successful dispute or resolve
\* leaves total unchanged and moves exactly the deposit's amount between
\* available and held, a successful chargeback lowers total by exactly the
\* deposit's amount.
C2_TotalChanges ==
    Live => \A c \in DOMAIN accounts :
        LET a == accounts[c]
        IN  /\ \A tx \in Txs, amt \in Amounts :
                   LET r == AccountDeposit(a, tx, amt)
                   IN  r.res = Ok => SumOfBalances(r.acct) = SumOfBalances(a) + amt
            /\ \A amt \in Amounts :
                   LET r == AccountWithdraw(a, amt)
                   IN  r.res = Ok => SumOfBalances(r.acct) = SumOfBalances(a) - amt
            /\ \A tx \in DOMAIN a.deposits :
                   LET amt == a.deposits[tx].amount
                       d == AccountDispute(a, tx)
                       r == AccountResolve(a, tx)
                       b == AccountChargeback(a, tx)
                   IN  /\ d.res = Ok =>
                              /\ d.acct.available = a.available - amt
                              /\ d.acct.held = a.held + amt
                       /\ r.res = Ok =>
                              /\ r.acct.available = a.available + amt
                              /\ r.acct.held = a.held - amt
                       /\ b.res = Ok =>
                              SumOfBalances(b.acct) = SumOfBalances(a) - amt

\* C3: once an account is frozen, every deposit, withdraw, dispute, resolve
\* and chargeback on it returns FrozenAccount, whatever else is wrong with
\* the request, and leaves the whole ledger as it was (so frozen stays set).
C3_FrozenRejectsAll ==
    Live => \A c \in DOMAIN accounts :
        accounts[c].frozen =>
            /\ \A tx \in Txs, amt \in Amounts :
                   ManagerDeposit(accounts, c, tx, amt) = MRet(accounts, FrozenAccount)
            /\ \A amt \in Amounts :
                   ManagerWithdraw(accounts, c, amt) = MRet(accounts, FrozenAccount)
            /\ \A tx \in Txs :
                   /\ ManagerDispute(accounts, c, tx) = MRet(accounts, FrozenAccount)
                   /\ ManagerResolve(accounts, c, tx) = MRet(accounts, FrozenAccount)
                   /\ ManagerChargeback(accounts, c, tx) = MRet(accounts, FrozenAccount)

\* a frozen account on which the requests are wrong in the other ways too:
\* a known tx (duplicate, non-disputed), a tx that is still disputed, and an
\* amount above available
C3_Witness ==
    /\ Live
    /\ \E c \in DOMAIN accounts :
           LET a == accounts[c]
           IN  /\ a.frozen
               /\ \E tx \in DOMAIN a.deposits : a.deposits[tx].disputed
               /\ \E tx \in DOMAIN a.deposits : ~a.deposits[tx].disputed
               /\ \E amt \in Amounts : amt > a.available

\* the documented scenario, with 2 and 1 for the amounts 100 and 50:
\* deposit(1,1,100), deposit(1,2,50), dispute(1,1), chargeback(1,1)
ChargebackScenario ==
    LET s1 == ManagerDeposit(<<>>, 1, 1, 2)
        s2 == ManagerDeposit(s1.accounts, 1, 2, 1)
        s3 == ManagerDispute(s2.accounts, 1, 1)
        s4 == ManagerChargeback(s3.accounts, 1, 1)
    IN  s4

\* C4: a successful chargeback(tx) on a disputed deposit of amount a lowers
\* held by a and total by a, leaves available unchanged, clears the deposit's
\* disputed flag and sets frozen; the documented scenario ends with
\* available = 50, held = 0, total = 50, locked = true.
C4_ChargebackEffect ==
    /\ ChargebackScenario.res = Ok
    /\ ChargebackScenario.accounts[1].available = 1
    /\ ChargebackScenario.accounts[1].held = 0
    /\ total(ChargebackScenario.accounts[1]).val = 1
    /\ ChargebackScenario.accounts[1].frozen
    /\ Live => \A c \in DOMAIN accounts :
           LET a == accounts[c]
           IN  \A tx \in DOMAIN a.deposits :
                   LET amt == a.deposits[tx].amount
                       b == AccountChargeback(a, tx)
                   IN  b.res = Ok =>
                           /\ a.deposits[tx].disputed
                           /\ b.acct.held = a.held - amt
                           /\ SumOfBalances(b.acct) = SumOfBalances(a) - amt
                           /\ b.acct.available = a.available
                           /\ ~b.acct.deposits[tx].disputed
                           /\ b.acct.frozen

\* C5: whenever dispute(tx) succeeds on a reachable non-frozen account, a
\* resolve(tx) right after it succeeds and gives back exactly the account
\* before the dispute (available, held, frozen, every disputed flag).
C5_DisputeResolveRoundTrip ==
    Live => \A c \in DOMAIN accounts, tx \in Txs :
        LET d == ManagerDispute(accounts, c, tx)
        IN  d.res = Ok => ManagerResolve(d.accounts, c, tx) = MRet(accounts, Ok)

\* a deposit of a non-zero amount that can be disputed while another deposit
\* of the account is under dispute
C5_Witness ==
    /\ Live
    /\ \E c \in DOMAIN accounts :
           LET a == accounts[c]
           IN  /\ a.held > 0
               /\ \E tx \in DOMAIN a.deposits :
                      /\ a.deposits[tx].amount > 0
                      /\ ManagerDispute(accounts, c, tx).res = Ok
                      /\ ManagerDispute(accounts, c, tx).accounts /= accounts

\* C6: on a non-frozen account a deposit with a tx already among the
\* account's deposits returns DuplicateTxn(tx) and changes nothing, whatever
\* the amount (so every repetition returns it again).
C6_DuplicateDepositRejected ==
    Live => \A c \in DOMAIN accounts :
        ~accounts[c].frozen =>
            \A tx \in DOMAIN accounts[c].deposits, amt \in Amounts :
                ManagerDeposit(accounts, c, tx, amt) = MRet(accounts, DuplicateTxn(tx))

\* a non-frozen account holding a disputed deposit whose amount differs from
\* an amount the deposit can be repeated with
C6_Witness ==
    /\ Live
    /\ \E c \in DOMAIN accounts :
           LET a == accounts[c]
           IN  /\ ~a.frozen
               /\ \E tx \in DOMAIN a.deposits, amt \in Amounts :
                      /\ a.deposits[tx].disputed
                      /\ amt /= a.deposits[tx].amount
                      /\ amt > 0
                      /\ ManagerDeposit(accounts, c, tx, amt).res = DuplicateTxn(tx)

\* C7: on a non-frozen account withdraw(amount) succeeds exactly when
\* amount <= available and then lowers available by amount; otherwise it
\* returns WithdrawalExceedsAvailable{available, attempted} and changes
\* nothing, also when amount <= available + held.
C7_WithdrawGuard ==
    Live => \A c \in DOMAIN accounts :
        ~accounts[c].frozen =>
            \A amt \in Amounts :
                ManagerWithdraw(accounts, c, amt) =
                    IF amt <= accounts[c].available
                    THEN MRet([accounts EXCEPT ![c].available = @ - amt], Ok)
                    ELSE MRet(accounts, withdrawal_exceeds(accounts[c].available, amt))

\* a non-frozen account with held funds and an amount above available that
\* available + held would cover, rejected; and one equal to available
C7_Witness ==
    /\ Live
    /\ \E c \in DOMAIN accounts :
           LET a == accounts[c]
           IN  /\ ~a.frozen
               /\ a.held > 0
               /\ a.available > 0
               /\ a.available \in Amounts
               /\ \E amt \in Amounts :
                      /\ a.available < amt
                      /\ amt <= SumOfBalances(a)
                      /\ ManagerWithdraw(accounts, c, amt).res.kind = "WithdrawalExceedsAvailable"

\* C8: on a non-frozen account dispute(tx) of a deposit that is disputed
\* returns AlreadyDisputedTxn(tx) and changes nothing, also when the
\* deposit's amount is above the current available.
C8_AlreadyDisputed ==
    Live => \A c \in DOMAIN accounts :
        ~accounts[c].frozen =>
            \A tx \in DOMAIN accounts[c].deposits :
                accounts[c].deposits[tx].disputed =>
                    ManagerDispute(accounts, c, tx) = MRet(accounts, AlreadyDisputedTxn(tx))

\* a non-frozen account with a disputed deposit larger than available
C8_Witness ==
    /\ Live
    /\ \E c \in DOMAIN accounts :
           LET a == accounts[c]
           IN  /\ ~a.frozen
               /\ \E tx \in DOMAIN a.deposits :
                      /\ a.deposits[tx].disputed
                      /\ a.deposits[tx].amount > a.available
                      /\ ManagerDispute(accounts, c, tx).res = AlreadyDisputedTxn(tx)

\* C9: on a non-frozen account dispute(tx) of an existing deposit that is not
\* disputed succeeds exactly when the deposit's amount <= available;
\* otherwise it returns DisputeExceedsAvailable{available, attempted} and
\* changes nothing.
C9_DisputeGuard ==
    Live => \A c \in DOMAIN accounts :
        ~accounts[c].frozen =>
            \A tx \in DOMAIN accounts[c].deposits :
                ~accounts[c].deposits[tx].disputed =>
                    LET amt == accounts[c].deposits[tx].amount
                        d == ManagerDispute(accounts, c, tx)
                    IN  IF amt <= accounts[c].available
                        THEN d.res = Ok
                        ELSE d = MRet(accounts, dispute_exceeds(accounts[c].available, amt))

\* C10: withdraw, dispute, resolve and chargeback for a client without an
\* account return NoClient(client) and leave the ledger unchanged; the
\* clients with an account are exactly those deposit was called for.
C10_NoClient ==
    /\ DOMAIN accounts = deposit_called
    /\ Live => \A c \in Clients \ DOMAIN accounts :
           /\ \A amt \in Amounts :
                  ManagerWithdraw(accounts, c, amt) = MRet(accounts, NoClient(c))
           /\ \A tx \in Txs :
                  /\ ManagerDispute(accounts, c, tx) = MRet(accounts, NoClient(c))
                  /\ ManagerResolve(accounts, c, tx) = MRet(accounts, NoClient(c))
                  /\ ManagerChargeback(accounts, c, tx) = MRet(accounts, NoClient(c))

\* one client has an account with funds and a disputed deposit, another
\* client has none and is refused
C10_Witness ==
    /\ Live
    /\ \E c \in DOMAIN accounts, n \in Clients \ DOMAIN accounts :
           /\ accounts[c].available > 0
           /\ accounts[c].held > 0
           /\ ManagerWithdraw(accounts, n, 0).res = NoClient(n)

\* C11: deposit(client, tx, amount) for an unknown client succeeds and
\* creates an account with available = amount, held = 0, frozen = false and
\* the single non-disputed deposit tx; for a known client it keeps the
\* account and its stored deposits and returns what Account::deposit returns.
C11_DepositCreatesOnce ==
    Live => \A c \in Clients, tx \in Txs, amt \in Amounts :
        LET r == ManagerDeposit(accounts, c, tx, amt)
        IN  IF c \notin DOMAIN accounts
            THEN /\ r.res = Ok
                 /\ DOMAIN r.accounts = DOMAIN accounts \cup {c}
                 /\ \A o \in DOMAIN accounts : r.accounts[o] = accounts[o]
                 /\ r.accounts[c] =
                        [available |-> amt, held |-> 0, frozen |-> FALSE,
                         deposits |-> tx :> [amount |-> amt, disputed |-> FALSE]]
            ELSE /\ r.res = AccountDeposit(accounts[c], tx, amt).res
                 /\ DOMAIN r.accounts = DOMAIN accounts
                 /\ r.accounts[c] = AccountDeposit(accounts[c], tx, amt).acct
                 /\ r.accounts[c].held = accounts[c].held
                 /\ r.accounts[c].frozen = accounts[c].frozen
                 /\ \A t \in DOMAIN accounts[c].deposits :
                        /\ t \in DOMAIN r.accounts[c].deposits
                        /\ r.accounts[c].deposits[t] = accounts[c].deposits[t]

\* a known client with held funds and a disputed deposit takes a further
\* deposit while another client is still unknown
C11_Witness ==
    /\ Live
    /\ \E c \in DOMAIN accounts, n \in Clients \ DOMAIN accounts :
           /\ accounts[c].held > 0
           /\ \E tx \in Txs \ DOMAIN accounts[c].deposits :
                  ManagerDeposit(accounts, c, tx, 1).res = Ok
           /\ ManagerDeposit(accounts, n, 1, 2).res = Ok

\* C12: every Manager operation addressed to client c, successful or
\* rejected, leaves the account of every other client unchanged.
C12_OtherAccountsUntouched ==
    Live => \A c \in Clients : \A o \in DOMAIN accounts \ {c} :
        /\ \A tx \in Txs, amt \in Amounts :
               ManagerDeposit(accounts, c, tx, amt).accounts[o] = accounts[o]
        /\ \A amt \in Amounts :
               ManagerWithdraw(accounts, c, amt).accounts[o] = accounts[o]
        /\ \A tx \in Txs :
               /\ ManagerDispute(accounts, c, tx).accounts[o] = accounts[o]
               /\ ManagerResolve(accounts, c, tx).accounts[o] = accounts[o]
               /\ ManagerChargeback(accounts, c, tx).accounts[o] = accounts[o]

\* two clients have accounts and a chargeback that freezes one of them is
\* possible while the other is not frozen
C12_Witness ==
    /\ Live
    /\ \E c \in DOMAIN accounts : \E o \in DOMAIN accounts \ {c} :
           /\ ~accounts[o].frozen
           /\ \E tx \in Txs :
                  /\ ManagerChargeback(accounts, c, tx).res = Ok
                  /\ ManagerChargeback(accounts, c, tx).accounts[c].frozen

\* C13: every Manager operation that returns an error leaves the whole
\* ledger equal to the ledger before the call.
C13_ErrorsChangeNothing ==
    Live => \A c \in Clients :
        /\ \A tx \in Txs, amt \in Amounts :
               LET r == ManagerDeposit(accounts, c, tx, amt)
               IN  r.res \notin {Ok, Panic} => r.accounts = accounts
        /\ \A amt \in Amounts :
               LET r == ManagerWithdraw(accounts, c, amt)
               IN  r.res \notin {Ok, Panic} => r.accounts = accounts
        /\ \A tx \in Txs :
               /\ LET r == ManagerDispute(accounts, c, tx)
                  IN  r.res \notin {Ok, Panic} => r.accounts = accounts
               /\ LET r == ManagerResolve(accounts, c, tx)
                  IN  r.res \notin {Ok, Panic} => r.accounts = accounts
               /\ LET r == ManagerChargeback(accounts, c, tx)
                  IN  r.res \notin {Ok, Panic} => r.accounts = accounts

\* an account on which a dispute is refused for lack of available funds
\* while another of its deposits is under dispute
C13_Witness ==
    /\ Live
    /\ \E c \in DOMAIN accounts, tx \in Txs :
           /\ accounts[c].held > 0
           /\ ManagerDispute(accounts, c, tx).res.kind = "DisputeExceedsAvailable"

\* C17: after any sequence of deposits no operation crashes and the
\* additions available += amt (deposit), held += amt (dispute),
\* available += amt (resolve) and available + held (total) stay within the
\* unsigned range, for every amount of that range.
C17_NoOverflow ==
    /\ ~crashed
    /\ \A c \in DOMAIN accounts :
           LET a == accounts[c]
           IN  /\ ~AddOverflows(a.available, a.held)
               /\ total(a).res = Ok
               /\ \A tx \in Txs, amt \in Amounts :
                      LET r == AccountDeposit(a, tx, amt)
                      IN  /\ r.res /= Panic
                          /\ r.res = Ok => ~AddOverflows(a.available, amt)
               /\ \A tx \in DOMAIN a.deposits :
                      LET d == AccountDispute(a, tx)
                          r == AccountResolve(a, tx)
                      IN  /\ d.res /= Panic
                          /\ d.res = Ok => ~AddOverflows(a.held, a.deposits[tx].amount)
                          /\ r.res /= Panic
                          /\ r.res = Ok => ~AddOverflows(a.available, a.deposits[tx].amount)
                          /\ AccountChargeback(a, tx).res /= Panic

\* the disputed flags of the deposits stored before a call are the same in
\* the ledger after it, except possibly the one of deposit tx of client c
FlagsKeptExcept(after, c, tx) ==
    \A o \in DOMAIN accounts : \A t \in DOMAIN accounts[o].deposits :
        (o /= c \/ t /= tx) =>
            after[o].deposits[t].disputed = accounts[o].deposits[t].disputed

FlagsKept(after) == FlagsKeptExcept(after, 0, 0)

\* the flag of deposit tx of client c before and after a call
FlagOf(accts, c, tx) == accts[c].deposits[tx].disputed

\* C19: in any single step a disputed flag goes from false to true only in
\* a successful dispute of that very tx and from true to false only in a
\* successful resolve or chargeback of that very tx; deposit, withdraw,
\* every rejected operation and every operation on another tx keep it.
C19_FlagTransitions ==
    Live => \A c \in Clients :
        /\ \A tx \in Txs, amt \in Amounts :
               LET r == ManagerDeposit(accounts, c, tx, amt)
               IN  r.res /= Panic => FlagsKept(r.accounts)
        /\ \A amt \in Amounts :
               LET r == ManagerWithdraw(accounts, c, amt)
               IN  r.res /= Panic => FlagsKept(r.accounts)
        /\ \A tx \in Txs :
               LET d == ManagerDispute(accounts, c, tx)
                   r == ManagerResolve(accounts, c, tx)
                   b == ManagerChargeback(accounts, c, tx)
               IN  /\ d.res /= Panic =>
                          /\ FlagsKeptExcept(d.accounts, c, tx)
                          /\ d.res /= Ok => FlagsKept(d.accounts)
                          /\ d.res = Ok =>
                                 ~FlagOf(accounts, c, tx) /\ FlagOf(d.accounts, c, tx)
                   /\ r.res /= Panic =>
                          /\ FlagsKeptExcept(r.accounts, c, tx)
                          /\ r.res /= Ok => FlagsKept(r.accounts)
                          /\ r.res = Ok =>
                                 FlagOf(accounts, c, tx) /\ ~FlagOf(r.accounts, c, tx)
                   /\ b.res /= Panic =>
                          /\ FlagsKeptExcept(b.accounts, c, tx)
                          /\ b.res /= Ok => FlagsKept(b.accounts)
                          /\ b.res = Ok =>
                                 FlagOf(accounts, c, tx) /\ ~FlagOf(b.accounts, c, tx)

\* an account with one deposit under dispute and another one not, on which
\* a dispute of the second is refused and a resolve of the first succeeds
C19_Witness ==
    /\ Live
    /\ \E c \in DOMAIN accounts : \E t1 \in Txs : \E t2 \in Txs \ {t1} :
           /\ ManagerResolve(accounts, c, t1).res = Ok
           /\ ManagerDispute(accounts, c, t2).res.kind = "DisputeExceedsAvailable"

\* C20: on a non-frozen account resolve(tx) and chargeback(tx) return
\* NoTransaction(tx) for a tx that is no deposit of the account and
\* NonDisputedTxn(tx) for a deposit that is not disputed, dispute(tx) returns
\* NoTransaction(tx) for an unknown tx; nothing changes in any of these cases.
C20_UnknownOrNonDisputed ==
    Live => \A c \in DOMAIN accounts :
        ~accounts[c].frozen =>
            \A tx \in Txs :
                /\ tx \notin DOMAIN accounts[c].deposits =>
                       /\ ManagerDispute(accounts, c, tx) = MRet(accounts, NoTransaction(tx))
                       /\ ManagerResolve(accounts, c, tx) = MRet(accounts, NoTransaction(tx))
                       /\ ManagerChargeback(accounts, c, tx) = MRet(accounts, NoTransaction(tx))
                /\ (tx \in DOMAIN accounts[c].deposits /\ ~accounts[c].deposits[tx].disputed) =>
                       /\ ManagerResolve(accounts, c, tx) = MRet(accounts, NonDisputedTxn(tx))
                       /\ ManagerChargeback(accounts, c, tx) = MRet(accounts, NonDisputedTxn(tx))

\* a non-frozen account with funds whose only deposit is not disputed, so
\* that one tx is refused as non-disputed and another as unknown
C20_Witness ==
    /\ Live
    /\ \E c \in DOMAIN accounts : \E t1 \in Txs : \E t2 \in Txs \ {t1} :
           /\ accounts[c].available > 0
           /\ ManagerChargeback(accounts, c, t1).res = NonDisputedTxn(t1)
           /\ ManagerChargeback(accounts, c, t2).res = NoTransaction(t2)
           /\ ~ManagerChargeback(accounts, c, t1).accounts[c].frozen

\* the records that a ledger rejects with a domain error
Rejected(accts) ==
    {rec \in Records : ~LacksAmount(rec) /\ Process(accts, rec).res \notin {Ok, Panic}}

\* C14: records are applied one after the other as the reader yields them;
\* a record that the ledger rejects with a domain error makes process return
\* Ok, leaves the ledger as it was and leaves the run loading, and at every
\* point of the run the ledger equals the ledger obtained by applying, in
\* the same order, only the records that the ledger accepted.
C14_SoftErrorsSwallowed ==
    Live =>
        /\ applied = accounts
        /\ run = "loading" =>
               \A rec \in Rejected(accounts) :
                   \A p \in {Process(accounts, rec)} :
                       /\ p.ret = Ok
                       /\ p.accounts = accounts
                       /\ LoadOutcome(p) = "loading"

\* a run still loading, with funds under dispute, where one record is
\* rejected and the record after it is accepted and changes the ledger
C14_Witness ==
    /\ Live
    /\ run = "loading"
    /\ applied = accounts
    /\ \E c \in DOMAIN accounts : accounts[c].held > 0
    /\ \E rec \in Rejected(accounts) : \E next \in Records \ Rejected(accounts) :
           /\ LoadOutcome(Process(accounts, rec)) = "loading"
           /\ ~LacksAmount(next)
           /\ Process(Process(accounts, rec).accounts, next).res = Ok
           /\ Process(Process(accounts, rec).accounts, next).accounts /= accounts

\* C15 (as claimed): a deposit or withdrawal record without amount raises
\* MissingAmount before the ledger is called, leaves the ledger unchanged,
\* and the run goes on loading with the next record.
C15_MissingAmountSoft ==
    (Live /\ run = "loading") =>
        \A rec \in Records :
            LacksAmount(rec) =>
                \A p \in {Process(accounts, rec)} :
                    /\ p.res = MissingAmount
                    /\ p.accounts = accounts
                    /\ LoadOutcome(p) = "loading"

\* C15 (amended): a deposit or withdrawal record without amount raises
\* MissingAmount before the ledger is called and leaves the ledger unchanged;
\* process returns the error and load_data stops there: the run has failed
\* with MissingAmount, nothing more is applied, no snapshot is written and
\* the exit code is FAILURE.
C15_MissingAmountAborts ==
    /\ (Live /\ run = "loading") =>
           \A rec \in Records :
               LacksAmount(rec) =>
                   \A p \in {Process(accounts, rec)} :
                       /\ p.res = MissingAmount
                       /\ p.ret = MissingAmount
                       /\ p.accounts = accounts
                       /\ LoadOutcome(p) = "failed"
    /\ fatal = "MissingAmount" =>
           /\ run = "failed"
           /\ ~loaded
           /\ snapshot = "none"
           /\ applied = accounts
           /\ ExitCode = "FAILURE"
           /\ ~ENABLED RunNext

\* a run that a record without amount has ended after deposits were applied
C15_Witness ==
    /\ fatal = "MissingAmount"
    /\ run = "failed"
    /\ \E c \in DOMAIN accounts : accounts[c].available > 0

\* C16: once reading the input has failed (the file cannot be opened, a
\* record cannot be parsed or read, an amount is negative) nothing more
\* happens: no record is applied, no snapshot is written and the exit code
\* is FAILURE; a snapshot is written only after load_data has returned, and
\* a complete one only in a run without any error.
C16_HardFailureAborts ==
    /\ (run = "failed" /\ ~loaded) =>
           /\ fatal \in {"IoError", "ParseError", "MissingAmount"}
           /\ snapshot = "none"
           /\ applied = accounts
           /\ ExitCode = "FAILURE"
           /\ ~ENABLED RunNext
    /\ snapshot /= "none" => loaded
    /\ snapshot = "complete" => (run = "done" /\ fatal = "none")

\* a run that the reader's error has ended after deposits were applied
C16_Witness ==
    /\ run = "failed"
    /\ fatal = "ParseError"
    /\ ~loaded
    /\ snapshot = "none"
    /\ \E c \in DOMAIN accounts : accounts[c].available > 0

\* the calls a stream can make on client c (a withdrawal does not use its tx)
Calls(c) ==
    {rec \in Records : /\ rec.client = c
                       /\ ~LacksAmount(rec)
                       /\ rec.operation = "withdrawal" => rec.tx = 1}

\* the ledger without the accounts of the other clients
Only(accts, c) == [o \in DOMAIN accts \cap {c} |-> accts[o]]

\* every call on client c with what it returns on the ledger accts
Outcomes(accts, c) ==
    {[call |-> a, r |-> ManagerCall(accts, a)] : a \in Calls(c)}

\* the outcomes that changed the ledger
Changing(S) == {x \in S : x.r.accounts /= accounts}

\* C18: from every ledger a run reaches, a call on one client and a call on
\* another client give the same ledger and the same two results in either
\* order (stated for the pairs where a call changes the ledger: two calls
\* that both leave it as it is are the same two calls in either order), and
\* a call on client c gives c's account and the result that it gives on the
\* ledger holding c's account alone; so the final ledger depends on each
\* client's own sequence of operations only.
C18_ClientsIndependent ==
    Live =>
        \A c \in Clients :
            \A A \in {Outcomes(accounts, c)} :
                /\ \A x \in A :
                       x.r.res /= Panic =>
                           \A alone \in {ManagerCall(Only(accounts, c), x.call)} :
                               /\ alone.res = x.r.res
                               /\ alone.accounts = Only(x.r.accounts, c)
                /\ \A d \in {o \in Clients : o > c} :
                       \A B \in {Outcomes(accounts, d)} :
                           \A pair \in (Changing(A) \X B) \cup (A \X Changing(B)) :
                               (pair[1].r.res /= Panic /\ pair[2].r.res /= Panic) =>
                                   \A xy \in {ManagerCall(pair[1].r.accounts, pair[2].call)} :
                                       \A yx \in {ManagerCall(pair[2].r.accounts, pair[1].call)} :
                                           /\ xy.accounts = yx.accounts
                                           /\ xy.res = pair[2].r.res
                                           /\ yx.res = pair[1].r.res

\* a ledger with two accounts where a chargeback on one client and a
\* withdrawal of funds on the other both succeed, in either order
C18_Witness ==
    /\ Live
    /\ \E c \in DOMAIN accounts : \E d \in DOMAIN accounts \ {c} :
           \E a \in Calls(c) : \E b \in Calls(d) :
               /\ a.operation = "chargeback"
               /\ b.operation = "withdrawal"
               /\ b.amount[1] > 0
               /\ ManagerCall(accounts, a).res = Ok
               /\ ManagerCall(accounts, b).res = Ok
               /\ ManagerCall(ManagerCall(accounts, a).accounts, b).res = Ok
               /\ ManagerCall(ManagerCall(accounts, a).accounts, b).accounts
                      = ManagerCall(ManagerCall(accounts, b).accounts, a).accounts

\* the ledger accts has a deposit entry tx under client c
HasEntry(accts, c, tx) ==
    c \in DOMAIN accts /\ tx \in DOMAIN accts[c].deposits

\* C21: whatever call is made on whatever reachable ledger, every deposit
\* entry is still there after it with the amount it had, and an entry that
\* is there only after the call was made by a deposit call that returned Ok:
\* it is the entry of that call's client and tx, holds that call's amount and
\* is not disputed.
C21_DepositsAppendOnly ==
    Live =>
        \A c \in Clients : \A x \in Outcomes(accounts, c) :
            x.r.res /= Panic =>
                \A o \in Clients, tx \in Txs :
                    /\ HasEntry(accounts, o, tx) =>
                           /\ HasEntry(x.r.accounts, o, tx)
                           /\ x.r.accounts[o].deposits[tx].amount
                                  = accounts[o].deposits[tx].amount
                    /\ (HasEntry(x.r.accounts, o, tx) /\ ~HasEntry(accounts, o, tx)) =>
                           /\ x.call.operation = "deposit"
                           /\ x.r.res = Ok
                           /\ <<o, tx>> = <<x.call.client, x.call.tx>>
                           /\ x.r.accounts[o].deposits[tx] = DepositNew(x.call.amount[1])

\* a frozen account that still has both its deposits with their amounts,
\* one of them charged back and the other still under dispute
C21_Witness ==
    /\ Live
    /\ \E c \in DOMAIN accounts : \E t1 \in Txs : \E t2 \in Txs \ {t1} :
           /\ accounts[c].frozen
           /\ {t1, t2} \subseteq DOMAIN accounts[c].deposits
           /\ accounts[c].deposits[t1].amount > 0
           /\ ~accounts[c].deposits[t1].disputed
           /\ accounts[c].deposits[t2].disputed

\* C22: a withdrawal record on an account that is not frozen, whose tx is
\* the tx of an earlier deposit of the same client, is rejected with
\* DuplicateTxn(tx) and leaves the ledger as it was (the claim's first case;
\* the ledger keeps no withdrawal's tx for its second case to be looked up).
C22_WithdrawalDuplicateRejected ==
    Live =>
        \A rec \in Records :
            (/\ rec.operation = "withdrawal"
             /\ ~LacksAmount(rec)
             /\ HasEntry(accounts, rec.client, rec.tx)
             /\ ~accounts[rec.client].frozen)
            => ManagerCall(accounts, rec) = MRet(accounts, DuplicateTxn(rec.tx))

\* the sum of the amounts of the disputed deposits of acct among the
\* transactions 1..n, as an integer
RECURSIVE DisputedUpTo(_, _)
DisputedUpTo(acct, n) ==
    IF n = 0 THEN 0
    ELSE DisputedUpTo(acct, n - 1) +
         (IF n \in DOMAIN acct.deposits /\ acct.deposits[n].disputed
          THEN acct.deposits[n].amount ELSE 0)

DisputedSum(acct) == DisputedUpTo(acct, MaxTx)

\* C23: in every reachable state of every account held equals the sum of
\* the amounts of the account's disputed deposits, so that held is 0 exactly
\* when no deposit with a non-zero amount is disputed and the held -= amt of
\* resolve and chargeback has no operand larger than held.
C23_HeldIsDisputedSum ==
    Live =>
        \A c \in DOMAIN accounts :
            /\ accounts[c].held = DisputedSum(accounts[c])
            /\ \A tx \in DOMAIN accounts[c].deposits :
                   accounts[c].deposits[tx].disputed =>
                       ~SubOverflows(accounts[c].held, accounts[c].deposits[tx].amount)

\* tx is a deposit of another client and not of client c
OnlyElsewhere(c, tx) ==
    /\ ~HasEntry(accounts, c, tx)
    /\ \E o \in DOMAIN accounts \ {c} : HasEntry(accounts, o, tx)

C25_ChargebackFinal ==
    [][\A c \in DOMAIN accounts :
           /\ accounts[c].frozen =>
                  /\ c \in DOMAIN accounts'
                  /\ accounts'[c] = accounts[c]
                  /\ \A tx \in Txs :
                         /\ ManagerChargeback(accounts, c, tx).res = FrozenAccount
                         /\ ManagerResolve(accounts, c, tx).res = FrozenAccount
           /\ (~accounts[c].frozen /\ c \in DOMAIN accounts' /\ accounts'[c].frozen) =>
                  \E tx \in Txs :
                      /\ ManagerChargeback(accounts, c, tx).res = Ok
                      /\ accounts' = ManagerChargeback(accounts, c, tx).accounts
           /\ \A tx \in Txs :
                  ManagerChargeback(accounts, c, tx).res = Ok =>
                      ManagerChargeback(accounts, c, tx).accounts[c].frozen
      ]_vars

\* an account frozen by the chargeback of one deposit while its other
\* deposit is still disputed and its amount is still held
C25_Witness ==
    /\ Live
    /\ \E c \in DOMAIN accounts : \E t1 \in Txs : \E t2 \in Txs \ {t1} :
           /\ accounts[c].frozen
           /\ HasEntry(accounts, c, t1)
           /\ HasEntry(accounts, c, t2)
           /\ accounts[c].deposits[t2].disputed
           /\ accounts[c].deposits[t2].amount > 0
           /\ accounts[c].held = accounts[c].deposits[t2].amount
           /\ ManagerResolve(accounts, c, t2).res = FrozenAccount

====
